---- MODULE Spec2Model ----
(***************************************************************************)
(* Real-time port availability and virtual queue of the charging-station   *)
(* booking application.                                                    *)
(*                                                                         *)
(* The model covers the queue route (GET / POST / DELETE of                *)
(* /api/stations/[id]/queue), the notify-me subscription route, the        *)
(* hardware report route with handlePortAvailable, the realtime helpers    *)
(* (file based port status store and the three broadcast helpers) and the  *)
(* ESP32 firmware that produces the hardware reports.                      *)
(*                                                                         *)
(* A request handler is one atomic action where requests are handled one   *)
(* after another (Join, Leave, HardwareReport, ...).  Where handlers        *)
(* overlap, a handler is a call that advances from one awaited store        *)
(* operation to the next (the Race... actions), and a write to the status   *)
(* file by one of several server workers is a read step and a write step.   *)
(* Fields of the documents that no handler ever reads to take a decision    *)
(* (userName, joinedAt, notification title / message) are left out of the   *)
(* records.                                                                 *)
(***************************************************************************)
EXTENDS Integers, Sequences, FiniteSets, TLC

\* ---------------------------------------------------------------- bounds
MaxEntries == 3
MaxNow == 300001

\* ------------------------------------------------------------ input sets
Users == {"u1", "u2", "u3"}
NoUser == "anonymous"
Stations == {"db1", "station-1"}
Ports == {"p1", "p2"}
Missing == ""
NoDate == -1
NoStatus == "none"
NoPeriod == -1
\* the (user, station) pairs that send queue requests
QueueRequests == (Users \X {"db1"}) \cup {<<"u1", "station-1">>}
                   \cup {<<NoUser, "db1">>}
\* the clock advance between two readings inside one handler, in ms
Clicks == {0, 1}

\* ------------------------------------------------------ program constants
HARDWARE_API_KEY == "esp32-secret-key-change-me"
ExpiryMs == 5 * 60 * 1000
SlotMinutes == 30

\* stationId.startsWith("station-") : the file-based stations
IsFileStation(stationId) == stationId \in {"station-1"}

VARIABLES
  queue,          \* Queue collection, in insertion order
  subActive,      \* PortSubscription rows with active = true, per station
  portStatusFile, \* .port-status.json : station -> port -> status
  stationDoc,     \* Station documents : chargingPorts.$.status
  now,            \* wall clock, milliseconds
  published,      \* events emitted on realtimeEmitter by the latest step
  notifications,  \* Notification rows created by the latest step
  request,        \* the latest step: a request, or time passing
  response,       \* and the response to it
  currentState,   \* firmware: PortState of the device
  promotedSinceOccupied, \* entries the device's reports have promoted
                        \* since its last report with status occupied
                        \* (NoPeriod as long as it has reported none)
  lastReport,     \* the status of the latest accepted report, per port
  calls,          \* overlapping handlers: where each one is, and its locals
  writers,        \* server workers inside setPortStatus, and what they read
  conns,          \* streaming connections: closed flag, heartbeat timer
  emitter,        \* realtimeEmitter: the listeners of each event name
  client          \* a station page: the ports its two components display

vars == <<queue, subActive, portStatusFile, stationDoc, now, published,
          notifications, request, response, currentState,
          promotedSinceOccupied, lastReport, calls, writers, conns, emitter,
          client>>

dbVars == <<queue, subActive, portStatusFile, stationDoc>>
fwVars == <<currentState>>
raceVars == <<calls, writers>>
streamVars == <<conns, emitter, client>>

\* ------------------------------------------------------- queue documents
Entry(userId, stationId, position) ==
  [userId |-> userId, stationId |-> stationId, position |-> position,
   status |-> "waiting", notifiedAt |-> NoDate, expiresAt |-> NoDate]

\* Queue.find({stationId, status: {$in: statuses}}) : the matching _ids
FindIds(q, stationId, statuses) ==
  {i \in 1..Len(q) : q[i].stationId = stationId /\ q[i].status \in statuses}

\* Queue.find({userId, stationId, status: {$in: statuses}})
FindUserIds(q, userId, stationId, statuses) ==
  {i \in FindIds(q, stationId, statuses) : q[i].userId = userId}

MinPosition(q, S) == CHOOSE m \in {q[i].position : i \in S} :
                        \A i \in S : m <= q[i].position
MaxPosition(q, S) == CHOOSE m \in {q[i].position : i \in S} :
                        \A i \in S : m >= q[i].position

\* .sort({position: 1}) : every order of S that is ascending by position
\* (documents with equal positions come in an order the store chooses)
RECURSIVE SortAsc(_, _)
SortAsc(q, S) ==
  IF S = {} THEN {<<>>}
  ELSE LET m == MinPosition(q, S)
           first == {i \in S : q[i].position = m}
       IN UNION {{<<i>> \o t : t \in SortAsc(q, S \ {i})} : i \in first}

\* ---------------------------------------------------------------- events
QueueUpdateEvent(stationId, userId, position, queueStatus, estimatedWaitMin) ==
  [type |-> "queue-update", stationId |-> stationId, userId |-> userId,
   position |-> position, queueStatus |-> queueStatus,
   estimatedWaitMin |-> estimatedWaitMin]

UserNotificationEvent(userId, nid, notificationType, stationId) ==
  [type |-> "notification", userId |-> userId, nid |-> nid,
   notificationType |-> notificationType, stationId |-> stationId]

PortUpdateEvent(stationId, portId, status, event, timestamp) ==
  [type |-> "port-update", stationId |-> stationId, portId |-> portId,
   status |-> status, event |-> event, timestamp |-> timestamp]

NotificationRow(userId, type, stationId, portId) ==
  [userId |-> userId, type |-> type, stationId |-> stationId, portId |-> portId]

\* ------------------------------------------------------------- responses
Request(op, userId, stationId, portId, status) ==
  [op |-> op, userId |-> userId, stationId |-> stationId, portId |-> portId,
   status |-> status, at |-> now]

\* a report and the x-api-key header it came with
ReportRequest(apiKey, stationId, portId, status) ==
  [op |-> "report", userId |-> NoUser, stationId |-> stationId,
   portId |-> portId, status |-> status, at |-> now, apiKey |-> apiKey]

NoBody == [position |-> 0, estimatedWaitMin |-> 0, queue |-> <<>>,
           userStatus |-> NoStatus, userExpiresAt |-> NoDate]

Response(code, body) == [code |-> code, body |-> body]

\* ------------------------------------------------- overlapping handlers
\* the requests whose handlers may overlap: two joins of u1 and one of u2,
\* a leave of each of them, and an available report, all for station db1
RaceCalls == {"join1a", "join1b", "join2", "leave1", "leave2", "report"}

CallOp(c) == CASE c \in {"join1a", "join1b", "join2"} -> "join"
               [] c \in {"leave1", "leave2"} -> "leave"
               [] c = "report" -> "report"

CallUser(c) == CASE c \in {"join1a", "join1b", "leave1"} -> "u1"
                 [] c \in {"join2", "leave2"} -> "u2"
                 [] c = "report" -> NoUser

\* a handler that has not been called: its position in the code and its
\* local variables (existing / lastEntry position, remaining, i, nextInQueue)
IdleCall == [pc |-> "idle", position |-> 0, remaining |-> <<>>, i |-> 0,
             next |-> 0, code |-> 0]

\* the server workers that share the status file
Workers == {"w1", "w2"}
IdleWriter == [pc |-> "idle", stationId |-> Missing, portId |-> Missing,
               status |-> Missing, store |-> <<>>]

\* --------------------------------------------------- streaming endpoints
MaxConns == 2
ConnIds == 1..MaxConns
EventNames == {"port-update", "notification", "queue-update"}
Endpoints == {"station-updates", "user"}
\* a connection: the closed flag of its handler, whether its heartbeat
\* interval is set, whether its response stream is open (neither closed nor
\* cancelled), whether the abort event of its request has fired, the
\* stationId of its query string or the userId of its session, and what the
\* latest step has written to its response stream
NoConn == [endpoint |-> Missing, closed |-> FALSE, heartbeat |-> FALSE,
           streamOpen |-> FALSE, aborted |-> FALSE, stationId |-> Missing,
           userId |-> NoUser, written |-> <<>>]

\* the first message of a stream, and the heartbeat comment line
ConnectedEvent(endpoint, stationId, userId) ==
  [type |-> "connected",
   subject |-> IF endpoint = "user" THEN userId
               ELSE IF stationId = Missing THEN "all" ELSE stationId]

HeartbeatLine == [type |-> "heartbeat"]

\* a port listener without the station filter
portListenerUnfiltered(conn, event) == ~conn.closed

\* payments/initiate lines 202-204 : portListener goes on to write the
\* event unless the connection is closed or has a stationId other than the
\* event's (an empty stationId is no filter)
portListener(conn, event) ==
  /\ ~conn.closed
  /\ ~(conn.stationId # Missing /\ event.stationId # conn.stationId)

\* part_004 lines 29-30 : notifListener
notifListener(conn, event) == ~(conn.closed \/ event.userId # conn.userId)

\* a queue listener without the user check
queueListenerAnyUser(conn, event) == ~conn.closed

\* part_004 lines 42-43 : queueListener
queueListener(conn, event) == ~(conn.closed \/ event.userId # conn.userId)

\* the listeners of a name that emit stops at the first failing write
RunUntilThrow(listeners, failing) ==
  {listeners[k] : k \in {j \in 1..Len(listeners) :
                           \A i \in 1..(j - 1) : listeners[i] \notin failing}}

\* realtimeEmitter.emit(name, event) : the listeners that run when the
\* writes of the connections in failing throw; every listener catches the
\* error of its own write, so emit runs them all
Run(listeners, failing) == {listeners[k] : k \in 1..Len(listeners)}

\* does connection c write the event when its listener runs
Accepts(conn, event) ==
  CASE event.type = "port-update" -> portListener(conn, event)
    [] event.type = "notification" -> notifListener(conn, event)
    [] event.type = "queue-update" -> queueListener(conn, event)
    [] OTHER -> FALSE

\* a stream that gets the events of a step newest first
WrittenNewestFirst(c, pub, failing) ==
  LET kept == SelectSeq(pub, LAMBDA e :
                  /\ c \in Run(emitter[e.type], failing)
                  /\ Accepts(conns[c], e))
  IN IF c \in failing THEN <<>>
     ELSE [k \in 1..Len(kept) |-> kept[Len(kept) + 1 - k]]

\* broadcastPortUpdate / broadcastNotification / broadcastQueueUpdate called
\* one after another with the events of pub : what the listeners of
\* connection c enqueue on its stream; a connection whose write throws sets
\* closed at its first write and writes nothing
Written(c, pub, failing) ==
  IF c \in failing THEN <<>>
  ELSE SelectSeq(pub, LAMBDA e : /\ c \in Run(emitter[e.type], failing)
                                 /\ Accepts(conns[c], e))

\* the emits of a handler that publishes pub, on the connections: the writes
\* of any of the connections that have something to write may throw
Forward(pub) ==
  /\ \E failing \in SUBSET {c \in ConnIds : Written(c, pub, {}) # <<>>} :
       conns' = [c \in ConnIds |->
                   [conns[c] EXCEPT !.closed = @ \/ c \in failing,
                                    !.written = Written(c, pub, failing)]]
  /\ UNCHANGED <<emitter, client>>

\* the connections after a step that writes to none of them
Silent == [d \in ConnIds |-> [conns[d] EXCEPT !.written = <<>>]]

\* ------------------------------------------------------ the station page
\* the station the page shows and its ports as the page was rendered: the
\* device of the first port reports it by its _id, the device of the second
\* one by its port number
ViewerStation == "db1"
initialPorts ==
  <<[_id |-> "p1", portNumber |-> "P1-1", status |-> "available"],
    [_id |-> "file-0-1", portNumber |-> "p2", status |-> "available"]>>

Init ==
  /\ queue = <<>>
  /\ subActive = [s \in Stations |-> {}]
  /\ portStatusFile = [s \in Stations |-> [p \in Ports |-> NoStatus]]
  /\ stationDoc = [s \in {t \in Stations : ~IsFileStation(t)} |->
                     [p \in Ports |-> "available"]]
  /\ now = 0
  /\ published = <<>>
  /\ notifications = <<>>
  /\ request = Request("none", NoUser, Missing, Missing, Missing)
  /\ response = Response(0, NoBody)
  /\ currentState = "STATE_AVAILABLE"
  /\ promotedSinceOccupied = NoPeriod
  /\ lastReport = [s \in Stations |-> [p \in Ports |-> NoStatus]]
  /\ calls = [c \in RaceCalls |-> IdleCall]
  /\ writers = [w \in Workers |-> IdleWriter]
  /\ conns = [c \in ConnIds |-> NoConn]
  /\ emitter = [e \in EventNames |-> <<>>]
  /\ client = [ports |-> initialPorts, livePorts |-> initialPorts]

\* ------------------------------------------------------------ the clock
\* The handlers read the clock only to stamp notifiedAt and expiresAt, so
\* time is let pass only while some entry carries such a stamp to compare to.
Tick(d) ==
  /\ now + d <= MaxNow
  /\ \E i \in 1..Len(queue) : queue[i].status = "notified"
  /\ now' = now + d
  /\ request' = Request("tick", NoUser, Missing, Missing, Missing)
  /\ response' = Response(0, NoBody)
  /\ published' = <<>>
  /\ notifications' = <<>>
  /\ UNCHANGED <<dbVars, fwVars, promotedSinceOccupied, lastReport,
                 raceVars>>
  /\ Forward(published')

\* ------------------------------------------ POST /api/stations/[id]/queue
\* a duplicate check that forgets the notified entries
ExistingWaitingOnly(q, userId, stationId) ==
  FindUserIds(q, userId, stationId, {"waiting"})

\* lines 93-97 : the entries that make a join a duplicate
Existing(q, userId, stationId) ==
  FindUserIds(q, userId, stationId, {"waiting", "notified"})

\* a next position that forgets the + 1
JoinPositionNoIncrement(q, stationId) ==
  LET active == FindIds(q, stationId, {"waiting", "notified"})
  IN IF active = {} THEN 1 ELSE MaxPosition(q, active)

\* lines 106-114 : the next position
JoinPosition(q, stationId) ==
  LET active == FindIds(q, stationId, {"waiting", "notified"})
  IN IF active = {} THEN 1 ELSE MaxPosition(q, active) + 1

Join(userId, stationId) ==
  /\ request' = Request("join", userId, stationId, Missing, Missing)
  /\ notifications' = <<>>
  /\ UNCHANGED <<subActive, portStatusFile, stationDoc, now, fwVars,
                 promotedSinceOccupied, lastReport, raceVars>>
  /\ IF userId = NoUser
     THEN /\ response' = Response(401, NoBody)
          /\ published' = <<>>
          /\ UNCHANGED queue
     ELSE LET mine == Existing(queue, userId, stationId)
          IN IF mine # {}
             THEN \E existing \in mine :
                    /\ response' = Response(409,
                          [NoBody EXCEPT !.position = queue[existing].position])
                    /\ published' = <<>>
                    /\ UNCHANGED queue
             ELSE LET position == JoinPosition(queue, stationId)
                  IN /\ Len(queue) < MaxEntries
                     /\ queue' = Append(queue,
                                        Entry(userId, stationId, position))
                     /\ published' = <<QueueUpdateEvent(stationId, userId,
                                          position, "waiting",
                                          position * SlotMinutes)>>
                     /\ response' = Response(201,
                          [NoBody EXCEPT !.position = position,
                                  !.estimatedWaitMin = position * SlotMinutes])
  /\ Forward(published')

\* lines 116-148 : Queue.create throws; the catch answers 500 before the
\* broadcast is reached
JoinCreateThrows(userId, stationId) ==
  /\ userId # NoUser
  /\ Existing(queue, userId, stationId) = {}
  /\ request' = Request("join", userId, stationId, Missing, Missing)
  /\ response' = Response(500, NoBody)
  /\ published' = <<>>
  /\ notifications' = <<>>
  /\ UNCHANGED <<dbVars, now, fwVars, promotedSinceOccupied, lastReport,
                 raceVars>>
  /\ Forward(published')

\* ---------------------------------------- DELETE /api/stations/[id]/queue
\* lines 164-167 : the entries findOneAndUpdate may complete
Leaving(q, userId, stationId) ==
  FindUserIds(q, userId, stationId, {"waiting", "notified"})

\* the loop over remaining: position = i + 1, save, broadcast
\* a loop that broadcasts without saving the new positions
RepackNotSaved(q, remaining) == q

Repack(q, remaining) ==
  [j \in 1..Len(q) |->
     IF \E i \in 1..Len(remaining) : remaining[i] = j
     THEN [q[j] EXCEPT !.position =
             CHOOSE i \in 1..Len(remaining) : remaining[i] = j]
     ELSE q[j]]

RemainingEvents(q, stationId, remaining) ==
  [i \in 1..Len(remaining) |->
     QueueUpdateEvent(stationId, q[remaining[i]].userId, i, "waiting",
                      i * SlotMinutes)]

Leave(userId, stationId) ==
  /\ request' = Request("leave", userId, stationId, Missing, Missing)
  /\ notifications' = <<>>
  /\ UNCHANGED <<subActive, portStatusFile, stationDoc, now, fwVars,
                 promotedSinceOccupied, lastReport, raceVars>>
  /\ IF userId = NoUser
     THEN /\ response' = Response(401, NoBody)
          /\ published' = <<>>
          /\ UNCHANGED queue
     ELSE LET mine == Leaving(queue, userId, stationId)
          IN \E done \in (IF mine = {} THEN {0} ELSE mine) :
               LET q1 == IF done = 0 THEN queue
                         ELSE [queue EXCEPT ![done].status = "completed"]
               IN \E remaining \in SortAsc(q1, FindIds(q1, stationId,
                                                       {"waiting"})) :
                    /\ queue' = Repack(q1, remaining)
                    /\ published' = RemainingEvents(q1, stationId, remaining)
                    /\ response' = Response(200, NoBody)
  /\ Forward(published')

\* ------------------------------------------- GET /api/stations/[id]/queue
\* lines 51-53, 63 : findIndex of the caller's entry in the listed queue,
\* plus one; 0 stands for null
userPosition(q, listed, userId) ==
  LET mine == {i \in 1..Len(listed) : q[listed[i]].userId = userId}
  IN IF userId = NoUser \/ mine = {} THEN 0
     ELSE CHOOSE i \in mine : \A k \in mine : i <= k

GetQueue(userId, stationId) ==
  /\ request' = Request("getQueue", userId, stationId, Missing, Missing)
  /\ UNCHANGED <<dbVars, now, fwVars, promotedSinceOccupied, lastReport,
                 raceVars>>
  /\ notifications' = <<>>
  /\ published' = <<>>
  /\ Forward(published')
  /\ \E listed \in SortAsc(queue, FindIds(queue, stationId,
                                          {"waiting", "notified"})) :
       LET userIdx == userPosition(queue, listed, userId)
       IN response' = Response(200,
            [position |-> userIdx,
             estimatedWaitMin |-> userIdx * SlotMinutes,
             queue |-> [i \in 1..Len(listed) |->
                          [position |-> i, userId |-> queue[listed[i]].userId,
                           status |-> queue[listed[i]].status]],
             userStatus |-> IF userIdx = 0 THEN NoStatus
                            ELSE queue[listed[userIdx]].status,
             userExpiresAt |-> IF userIdx = 0 THEN NoDate
                               ELSE queue[listed[userIdx]].expiresAt])


\* ------------------------------------------- lib/realtime : the port store
EmptyStore == [s \in Stations |-> [p \in Ports |-> NoStatus]]

\* a file that cannot be read or parsed reads as {}
readPortStatusFile(file, readOk) == IF readOk THEN file ELSE EmptyStore

\* a failed write is ignored
writePortStatusFile(file, data, writeOk) == IF writeOk THEN data ELSE file

setPortStatus(file, stationId, portId, status, readOk, writeOk) ==
  LET store == readPortStatusFile(file, readOk)
  IN writePortStatusFile(file, [store EXCEPT ![stationId][portId] = status],
                         writeOk)

getPortStatuses(file, stationId, readOk) ==
  readPortStatusFile(file, readOk)[stationId]

\* ------------------------------- POST /api/hardware/port-update : failures
\* the awaited store calls of handlePortAvailable that may throw
FailPoints == {"none", "dbConnect", "subscriberNotification", "deactivate",
               "promote", "turnNotification", "findRemaining"}

\* what the environment does to one report: the station update succeeds or
\* throws, the status file is readable and writable or not, one awaited call
\* of handlePortAvailable throws or none does, and the clock advances by
\* click milliseconds between the two readings of lines 138 and 139
Envs(fails, clicks) == [dbOk : {TRUE}, readOk : {TRUE}, writeOk : {TRUE},
                        fail : fails, click : clicks]

\* PortSubscription.find(...) returns the subscribers in some order
RECURSIVE Orders(_)
Orders(S) ==
  IF S = {} THEN {<<>>}
  ELSE UNION {{<<x>> \o t : t \in Orders(S \ {x})} : x \in S}

Outcome(q, subs, pub, rows, t) ==
  [queue |-> q, subActive |-> subs, published |-> pub,
   notifications |-> rows, now |-> t]

\* a promotion that sorts by descending position
NextInQueueLast(q, stationId) ==
  LET waiting == FindIds(q, stationId, {"waiting"})
  IN {i \in waiting : q[i].position = MaxPosition(q, waiting)}

\* Queue.findOneAndUpdate({stationId, status: "waiting"}, ..,
\*                        {sort: {position: 1}}) : the documents it may pick
NextInQueue(q, stationId) ==
  LET waiting == FindIds(q, stationId, {"waiting"})
  IN {i \in waiting : q[i].position = MinPosition(q, waiting)}

\* the $set of lines 136-140, with the two clock readings t1 and t2
PromoteNext(q, next, t1, t2) ==
  [q EXCEPT ![next].status = "notified",
            ![next].notifiedAt = t1,
            ![next].expiresAt = t2 + ExpiryMs]

\* lines 145-191 : notify the promoted user, tell the remaining waiters
NotifyQueue(q1, subs1, pub, rows, t, stationId, portId, next, fail) ==
  IF fail = "turnNotification"
  THEN {Outcome(q1, subs1, pub, rows, t)}
  ELSE LET rows1 == Append(rows, NotificationRow(q1[next].userId,
                                    "queue_turn", stationId, portId))
           pub1 == pub \o
                   <<UserNotificationEvent(q1[next].userId, Len(rows1),
                                           "queue_turn", stationId),
                     QueueUpdateEvent(stationId, q1[next].userId,
                                      q1[next].position, "notified", 0)>>
       IN IF fail = "findRemaining"
          THEN {Outcome(q1, subs1, pub1, rows1, t)}
          ELSE {Outcome(q1, subs1,
                        pub1 \o RemainingEvents(q1, stationId, remaining),
                        rows1, t) :
                  remaining \in SortAsc(q1, FindIds(q1, stationId,
                                                    {"waiting"}))}

\* lines 132-192
ProcessQueue(q, subs1, pub, rows, t, click, stationId, portId, fail) ==
  IF fail = "promote" \/ NextInQueue(q, stationId) = {}
  THEN {Outcome(q, subs1, pub, rows, t)}
  ELSE UNION {NotifyQueue(PromoteNext(q, next, t, t + click), subs1, pub,
                          rows, t + click, stationId, portId, next, fail) :
                next \in NextInQueue(q, stationId)}

\* an updateMany that matches nothing
DeactivateNone(subs, stationId) == subs

\* lines 126-129 : PortSubscription.updateMany({stationId, active: true},
\*                                             {active: false})
Deactivate(subs, stationId) == [subs EXCEPT ![stationId] = {}]

\* lines 80-196 : every outcome of handlePortAvailable; whatever is thrown
\* inside is caught and logged at line 193
handlePortAvailable(q, subs, stationId, portId, t, click, fail) ==
  IF fail = "dbConnect"
  THEN {Outcome(q, subs, <<>>, <<>>, t)}
  ELSE UNION {
    LET n == Len(order)
        rows(k) == [j \in 1..k |-> NotificationRow(order[j], "port_available",
                                                   stationId, portId)]
        sent(k) == [j \in 1..k |-> UserNotificationEvent(order[j], j,
                                      "port_available", stationId)]
    IN IF fail = "subscriberNotification" /\ n > 0
       THEN {Outcome(q, subs, sent(k - 1), rows(k - 1), t) : k \in 1..n}
       ELSE IF fail = "deactivate" /\ n > 0
       THEN {Outcome(q, subs, sent(n), rows(n), t)}
       ELSE ProcessQueue(q,
                         IF n > 0 THEN Deactivate(subs, stationId) ELSE subs,
                         sent(n), rows(n), t, click, stationId, portId, fail)
    : order \in Orders(subs[stationId])}

\* a handler that accepts any key
RejectionKeyIgnored(apiKey, stationId, portId, status) ==
  IF stationId = Missing \/ portId = Missing \/ status = Missing THEN 400
  ELSE 0

\* lines 23-36 : the status code a report is rejected with, 0 for none
Rejection(apiKey, stationId, portId, status) ==
  IF apiKey # HARDWARE_API_KEY THEN 401
  ELSE IF stationId = Missing \/ portId = Missing \/ status = Missing THEN 400
  ELSE 0

\* a broadcast that gives up when the status cannot be stored
broadcastPortUpdateStoredOnly(file, event, readOk, writeOk) ==
  [file |-> setPortStatus(file, event.stationId, event.portId, event.status,
                          readOk, writeOk),
   emitted |-> IF writeOk THEN <<event>> ELSE <<>>]

\* part_008 lines 416-422 : the status is stored, then the event is emitted
broadcastPortUpdate(file, event, readOk, writeOk) ==
  [file |-> setPortStatus(file, event.stationId, event.portId, event.status,
                          readOk, writeOk),
   emitted |-> <<event>>]

\* lines 21-76 : the report handler, on every variable but the firmware's
ReportHandled(apiKey, stationId, portId, status, eventName, env) ==
  /\ request' = ReportRequest(apiKey, stationId, portId, status)
  /\ UNCHANGED raceVars
  /\ IF Rejection(apiKey, stationId, portId, status) # 0
     THEN /\ response' = Response(Rejection(apiKey, stationId, portId, status),
                                  NoBody)
          /\ published' = <<>>
          /\ notifications' = <<>>
          /\ UNCHANGED <<dbVars, now, lastReport>>
     ELSE LET sent == broadcastPortUpdate(portStatusFile,
                        PortUpdateEvent(stationId, portId, status,
                           IF eventName = Missing THEN "status_change"
                                                  ELSE eventName, now),
                        env.readOk, env.writeOk)
          IN
          /\ now + env.click <= MaxNow
          /\ lastReport' = [lastReport EXCEPT ![stationId][portId] = status]
          /\ portStatusFile' = sent.file
          /\ stationDoc' = IF ~IsFileStation(stationId) /\ env.dbOk
                           THEN [stationDoc EXCEPT ![stationId][portId] = status]
                           ELSE stationDoc
          /\ \E o \in (IF status = "available"
                       THEN handlePortAvailable(queue, subActive, stationId,
                                                portId, now, env.click, env.fail)
                       ELSE {Outcome(queue, subActive, <<>>, <<>>, now)}) :
               /\ queue' = o.queue
               /\ subActive' = o.subActive
               /\ notifications' = o.notifications
               /\ now' = o.now
               /\ published' = sent.emitted \o o.published
          /\ response' = Response(200, NoBody)
  /\ Forward(published')

HardwareReport(apiKey, stationId, portId, status, env) ==
  /\ ReportHandled(apiKey, stationId, portId, status, Missing, env)
  /\ UNCHANGED <<fwVars, promotedSinceOccupied>>

\* -------------------------------------------- esp32 firmware (the device)
STATION_ID == "db1"
PORT_ID == "p1"
API_KEY == "esp32-secret-key-change-me"

stateStatuses(state) ==
  CASE state = "STATE_AVAILABLE" -> "available"
    [] state = "STATE_VEHICLE_CONNECTED" -> "occupied"
    [] state = "STATE_CHARGING" -> "occupied"
    [] state = "STATE_CHARGE_COMPLETE" -> "available"
    [] state = "STATE_ERROR" -> "maintenance"

stateEvents(state) ==
  CASE state = "STATE_AVAILABLE" -> "port_available"
    [] state = "STATE_VEHICLE_CONNECTED" -> "vehicle_connected"
    [] state = "STATE_CHARGING" -> "charging_started"
    [] state = "STATE_CHARGE_COMPLETE" -> "charging_complete"
    [] state = "STATE_ERROR" -> "error"

advanceState(state) ==
  CASE state = "STATE_AVAILABLE" -> "STATE_VEHICLE_CONNECTED"
    [] state = "STATE_VEHICLE_CONNECTED" -> "STATE_CHARGING"
    [] state = "STATE_CHARGING" -> "STATE_CHARGE_COMPLETE"
    [] state = "STATE_CHARGE_COMPLETE" -> "STATE_AVAILABLE"
    [] OTHER -> "STATE_AVAILABLE"

\* the entries a step has moved from waiting to notified
Promoted(q, q1) ==
  {i \in 1..Len(q) : q[i].status = "waiting" /\ q1[i].status = "notified"}

\* sendStatusUpdate() of the state the device is in after the step;
\* connected is WiFi.status() == WL_CONNECTED
sendStatusUpdate(connected, env) ==
  IF connected
  THEN /\ ReportHandled(API_KEY, STATION_ID, PORT_ID,
                        stateStatuses(currentState'),
                        stateEvents(currentState'), env)
       /\ promotedSinceOccupied' =
            IF stateStatuses(currentState') = "occupied" THEN 0
            ELSE IF promotedSinceOccupied = NoPeriod THEN NoPeriod
            ELSE promotedSinceOccupied + Cardinality(Promoted(queue, queue'))
  ELSE /\ request' = Request("skipped", NoUser, STATION_ID, PORT_ID,
                              stateStatuses(currentState'))
       /\ response' = Response(0, NoBody)
       /\ published' = <<>>
       /\ notifications' = <<>>
       /\ UNCHANGED <<dbVars, now, promotedSinceOccupied, lastReport,
                      raceVars>>
       /\ Forward(published')

\* loop(), lines 154-160 : the button is pressed
ButtonPress(connected, env) ==
  /\ currentState' = advanceState(currentState)
  /\ sendStatusUpdate(connected, env)

\* loop(), lines 166-174 : the simulated charge is over
ChargingDone(connected, env) ==
  /\ currentState = "STATE_CHARGING"
  /\ currentState' = "STATE_CHARGE_COMPLETE"
  /\ sendStatusUpdate(connected, env)

\* loop(), lines 189-192 : the 60 s heartbeat re-sends the current state
Heartbeat(env) ==
  /\ currentState' = currentState
  /\ sendStatusUpdate(TRUE, env)

\* the reports of clients other than the modelled device
ReportInputs ==
  {HARDWARE_API_KEY} \X Stations \X Ports \X {"available"}

\* ------------------------------------------ handlers that overlap (db1)
\* Each action below is the part of a handler from one awaited store
\* operation to the next: the store operation itself, then the synchronous
\* code that follows it up to the next await.
RaceStation == "db1"

RaceFrame ==
  UNCHANGED <<subActive, now, fwVars, promotedSinceOccupied, writers,
              streamVars>>

\* part_006 lines 93-104 : findOne of the caller's waiting / notified entry
JoinFindExisting(c) ==
  /\ CallOp(c) = "join"
  /\ calls[c].pc = "idle"
  /\ request' = Request("join", CallUser(c), RaceStation, Missing, Missing)
  /\ published' = <<>>
  /\ notifications' = <<>>
  /\ RaceFrame
  /\ UNCHANGED <<dbVars, lastReport>>
  /\ LET mine == Existing(queue, CallUser(c), RaceStation)
     IN IF mine # {}
        THEN \E existing \in mine :
               /\ calls' = [calls EXCEPT ![c].pc = "done", ![c].code = 409,
                              ![c].position = queue[existing].position]
               /\ response' = Response(409,
                     [NoBody EXCEPT !.position = queue[existing].position])
        ELSE /\ calls' = [calls EXCEPT ![c].pc = "findLast"]
             /\ response' = Response(0, NoBody)

\* part_006 lines 107-114 : findOne of the last entry, position = last + 1
JoinFindLast(c) ==
  /\ CallOp(c) = "join"
  /\ calls[c].pc = "findLast"
  /\ request' = Request("join", CallUser(c), RaceStation, Missing, Missing)
  /\ response' = Response(0, NoBody)
  /\ published' = <<>>
  /\ notifications' = <<>>
  /\ RaceFrame
  /\ UNCHANGED <<dbVars, lastReport>>
  /\ calls' = [calls EXCEPT ![c].pc = "create",
                            ![c].position = JoinPosition(queue, RaceStation)]

\* part_006 lines 116-141 : Queue.create, the broadcast and the answer
JoinCreate(c) ==
  /\ CallOp(c) = "join"
  /\ calls[c].pc = "create"
  /\ Len(queue) < MaxEntries
  /\ request' = Request("join", CallUser(c), RaceStation, Missing, Missing)
  /\ notifications' = <<>>
  /\ RaceFrame
  /\ UNCHANGED <<subActive, portStatusFile, stationDoc, lastReport>>
  /\ LET position == calls[c].position
     IN /\ queue' = Append(queue, Entry(CallUser(c), RaceStation, position))
        /\ published' = <<QueueUpdateEvent(RaceStation, CallUser(c), position,
                                           "waiting", position * SlotMinutes)>>
        /\ response' = Response(201,
              [NoBody EXCEPT !.position = position,
                             !.estimatedWaitMin = position * SlotMinutes])
        /\ calls' = [calls EXCEPT ![c].pc = "done", ![c].code = 201]

\* part_006 lines 164-167 : findOneAndUpdate to completed
LeaveComplete(c) ==
  /\ CallOp(c) = "leave"
  /\ calls[c].pc = "idle"
  /\ request' = Request("leave", CallUser(c), RaceStation, Missing, Missing)
  /\ response' = Response(0, NoBody)
  /\ published' = <<>>
  /\ notifications' = <<>>
  /\ RaceFrame
  /\ UNCHANGED <<subActive, portStatusFile, stationDoc, lastReport>>
  /\ LET mine == Leaving(queue, CallUser(c), RaceStation)
     IN \E done \in (IF mine = {} THEN {0} ELSE mine) :
          /\ queue' = IF done = 0 THEN queue
                      ELSE [queue EXCEPT ![done].status = "completed"]
          /\ calls' = [calls EXCEPT ![c].pc = "findRemaining"]

\* what find() hands to the loop: the documents as they were when read
Loaded(q, order) ==
  [k \in 1..Len(order) |-> [id |-> order[k], userId |-> q[order[k]].userId,
                            position |-> q[order[k]].position]]

\* part_006 lines 170-173 : find of the waiting entries, sorted
LeaveFindRemaining(c) ==
  /\ CallOp(c) = "leave"
  /\ calls[c].pc = "findRemaining"
  /\ request' = Request("leave", CallUser(c), RaceStation, Missing, Missing)
  /\ published' = <<>>
  /\ notifications' = <<>>
  /\ RaceFrame
  /\ UNCHANGED <<dbVars, lastReport>>
  /\ \E order \in SortAsc(queue, FindIds(queue, RaceStation, {"waiting"})) :
       IF order = <<>>
       THEN /\ calls' = [calls EXCEPT ![c].pc = "done", ![c].code = 200]
            /\ response' = Response(200, NoBody)
       ELSE /\ calls' = [calls EXCEPT ![c].pc = "save", ![c].i = 1,
                                      ![c].remaining = Loaded(queue, order)]
            /\ response' = Response(0, NoBody)

\* a save that writes the whole document as it was read
SaveWholeDocument(q, doc, position) ==
  [q EXCEPT ![doc.id].position = position, ![doc.id].status = "waiting"]

\* document.save() : an update of the modified paths only, here position,
\* and no update at all when position has the value that was read
SavePosition(q, doc, position) ==
  IF doc.position = position THEN q
  ELSE [q EXCEPT ![doc.id].position = position]

\* part_006 lines 175-188 : one turn of the loop, and the answer after the
\* last one
LeaveSave(c) ==
  /\ CallOp(c) = "leave"
  /\ calls[c].pc = "save"
  /\ request' = Request("leave", CallUser(c), RaceStation, Missing, Missing)
  /\ notifications' = <<>>
  /\ RaceFrame
  /\ UNCHANGED <<subActive, portStatusFile, stationDoc, lastReport>>
  /\ LET i == calls[c].i
         doc == calls[c].remaining[i]
         last == i = Len(calls[c].remaining)
     IN /\ queue' = SavePosition(queue, doc, i)
        /\ published' = <<QueueUpdateEvent(RaceStation, doc.userId, i,
                                           "waiting", i * SlotMinutes)>>
        /\ calls' = [calls EXCEPT ![c].i = i + 1,
                       ![c].pc = IF last THEN "done" ELSE "save",
                       ![c].code = IF last THEN 200 ELSE 0]
        /\ response' = Response(IF last THEN 200 ELSE 0, NoBody)

\* port-update lines 39-58 and 82-143 : the broadcast, the station update
\* and, with no subscriber, the findOneAndUpdate of the queue; the awaited
\* calls before the findOneAndUpdate touch no queue document
ReportPromote(c) ==
  /\ CallOp(c) = "report"
  /\ calls[c].pc = "idle"
  /\ subActive[RaceStation] = {}
  /\ request' = Request("report", NoUser, RaceStation, "p1", "available")
  /\ notifications' = <<>>
  /\ RaceFrame
  /\ portStatusFile' = setPortStatus(portStatusFile, RaceStation, "p1",
                                     "available", TRUE, TRUE)
  /\ stationDoc' = [stationDoc EXCEPT ![RaceStation]["p1"] = "available"]
  /\ lastReport' = [lastReport EXCEPT ![RaceStation]["p1"] = "available"]
  /\ published' = <<PortUpdateEvent(RaceStation, "p1", "available",
                                    "status_change", now)>>
  /\ LET first == NextInQueue(queue, RaceStation)
     IN \E next \in (IF first = {} THEN {0} ELSE first) :
          IF next = 0
          THEN /\ UNCHANGED queue
               /\ calls' = [calls EXCEPT ![c].pc = "done", ![c].code = 200]
               /\ response' = Response(200, NoBody)
          ELSE /\ queue' = PromoteNext(queue, next, now, now)
               /\ calls' = [calls EXCEPT ![c].pc = "notify", ![c].next = next,
                              ![c].position = queue[next].position]
               /\ response' = Response(0, NoBody)

\* port-update lines 146-175 : Notification.create and the two broadcasts
ReportNotify(c) ==
  /\ CallOp(c) = "report"
  /\ calls[c].pc = "notify"
  /\ request' = Request("report", NoUser, RaceStation, "p1", "available")
  /\ response' = Response(0, NoBody)
  /\ RaceFrame
  /\ UNCHANGED <<dbVars, lastReport>>
  /\ LET userId == queue[calls[c].next].userId
     IN /\ notifications' = <<NotificationRow(userId, "queue_turn",
                                              RaceStation, "p1")>>
        /\ published' = <<UserNotificationEvent(userId, 1, "queue_turn",
                                                RaceStation),
                          QueueUpdateEvent(RaceStation, userId,
                                           calls[c].position, "notified", 0)>>
  /\ calls' = [calls EXCEPT ![c].pc = "remaining"]

\* port-update lines 178-191 : find of the waiting entries and the loop of
\* broadcasts, then the answer of line 65
ReportRemaining(c) ==
  /\ CallOp(c) = "report"
  /\ calls[c].pc = "remaining"
  /\ request' = Request("report", NoUser, RaceStation, "p1", "available")
  /\ response' = Response(200, NoBody)
  /\ notifications' = <<>>
  /\ RaceFrame
  /\ UNCHANGED <<dbVars, lastReport>>
  /\ \E remaining \in SortAsc(queue, FindIds(queue, RaceStation,
                                             {"waiting"})) :
       published' = RemainingEvents(queue, RaceStation, remaining)
  /\ calls' = [calls EXCEPT ![c].pc = "done", ![c].code = 200]

\* ------------------------ the report handler between its subscriber calls
\* port-update lines 38-97 : the broadcast of the port-update, the station
\* update, and PortSubscription.find of the active subscribers of the
\* station, kept in remaining
ReportFindSubscribers(c) ==
  /\ CallOp(c) = "report"
  /\ calls[c].pc \in {"idle", "done"}
  /\ request' = ReportRequest(HARDWARE_API_KEY, RaceStation, "p1", "available")
  /\ response' = Response(0, NoBody)
  /\ notifications' = <<>>
  /\ RaceFrame
  /\ UNCHANGED queue
  /\ portStatusFile' = setPortStatus(portStatusFile, RaceStation, "p1",
                                     "available", TRUE, TRUE)
  /\ stationDoc' = [stationDoc EXCEPT ![RaceStation]["p1"] = "available"]
  /\ lastReport' = [lastReport EXCEPT ![RaceStation]["p1"] = "available"]
  /\ published' = <<PortUpdateEvent(RaceStation, "p1", "available",
                                    "status_change", now)>>
  /\ \E subscribers \in Orders(subActive[RaceStation]) :
       calls' = [calls EXCEPT ![c] = [IdleCall EXCEPT !.pc = "subscribers",
                                               !.remaining = subscribers]]

\* lines 99-122 : Notification.create and broadcastNotification for the next
\* subscriber of the list
ReportNotifySubscriber(c) ==
  /\ CallOp(c) = "report"
  /\ calls[c].pc = "subscribers"
  /\ calls[c].i < Len(calls[c].remaining)
  /\ request' = ReportRequest(HARDWARE_API_KEY, RaceStation, "p1", "available")
  /\ response' = Response(0, NoBody)
  /\ RaceFrame
  /\ UNCHANGED <<dbVars, lastReport>>
  /\ LET userId == calls[c].remaining[calls[c].i + 1]
     IN /\ notifications' = <<NotificationRow(userId, "port_available",
                                              RaceStation, "p1")>>
        /\ published' = <<UserNotificationEvent(userId, calls[c].i + 1,
                                                "port_available",
                                                RaceStation)>>
  /\ calls' = [calls EXCEPT ![c].i = @ + 1]

\* lines 124-130 : after the loop, updateMany when the list was not empty
ReportDeactivate(c) ==
  /\ CallOp(c) = "report"
  /\ calls[c].pc = "subscribers"
  /\ calls[c].i = Len(calls[c].remaining)
  /\ request' = ReportRequest(HARDWARE_API_KEY, RaceStation, "p1", "available")
  /\ response' = Response(0, NoBody)
  /\ published' = <<>>
  /\ notifications' = <<>>
  /\ UNCHANGED <<queue, portStatusFile, stationDoc, lastReport, now, fwVars,
                 promotedSinceOccupied, writers, streamVars>>
  /\ subActive' = IF Len(calls[c].remaining) > 0
                  THEN Deactivate(subActive, RaceStation)
                  ELSE subActive
  /\ calls' = [calls EXCEPT ![c].pc = "queue"]

\* lines 132-192 and 65 : the queue is processed and the report answered
ReportProcessQueue(c) ==
  /\ CallOp(c) = "report"
  /\ calls[c].pc = "queue"
  /\ request' = ReportRequest(HARDWARE_API_KEY, RaceStation, "p1", "available")
  /\ response' = Response(200, NoBody)
  /\ UNCHANGED <<subActive, portStatusFile, stationDoc, lastReport, fwVars,
                 promotedSinceOccupied, writers, streamVars>>
  /\ \E o \in ProcessQueue(queue, subActive, <<>>, <<>>, now, 0, RaceStation,
                            "p1", "none") :
       /\ queue' = o.queue
       /\ notifications' = o.notifications
       /\ published' = o.published
       /\ now' = o.now
  /\ calls' = [calls EXCEPT ![c].pc = "done", ![c].code = 200]

\* ------------------------------------------ the two streaming endpoints
\* the event names a connection of an endpoint listens to
Listens(endpoint) ==
  CASE endpoint = "station-updates" -> {"port-update"}
    [] endpoint = "user" -> {"notification", "queue-update"}
    [] OTHER -> {}

RECURSIVE Without(_, _)
Without(listeners, c) ==
  IF listeners = <<>> THEN <<>>
  ELSE IF Head(listeners) = c THEN Without(Tail(listeners), c)
  ELSE <<Head(listeners)>> \o Without(Tail(listeners), c)

\* a cleanup that forgets the queue-update listener
cleanupKeepsQueueListener(em, c) ==
  [e \in EventNames |-> IF e = "queue-update" THEN em[e]
                        ELSE Without(em[e], c)]

\* cleanup() : realtimeEmitter.off of the listeners of connection c
cleanup(em, c) == [e \in EventNames |-> Without(em[e], c)]

StreamFrame ==
  /\ published' = <<>>
  /\ notifications' = <<>>
  /\ response' = Response(0, NoBody)
  /\ UNCHANGED <<dbVars, now, fwVars, promotedSinceOccupied, lastReport,
                 raceVars, client>>

\* GET of an endpoint, start() : the first message, the listeners, the
\* interval and the abort handler of a new connection; a slot is free again
\* once its request aborted. The user endpoint takes the userId of the
\* session (a request without one is answered 401 and opens no stream), the
\* station endpoint the stationId of the query string.
Connect(c, endpoint, stationId, userId) ==
  /\ conns[c].endpoint = Missing \/ conns[c].aborted
  /\ endpoint = "user" => userId # NoUser
  /\ request' = Request("connect", userId, stationId, Missing, endpoint)
  /\ StreamFrame
  /\ conns' = [Silent EXCEPT ![c] =
                 [endpoint |-> endpoint, closed |-> FALSE,
                  heartbeat |-> TRUE, streamOpen |-> TRUE, aborted |-> FALSE,
                  stationId |-> stationId, userId |-> userId,
                  written |-> <<ConnectedEvent(endpoint, stationId, userId)>>]]
  /\ emitter' = [e \in EventNames |->
                   IF e \in Listens(endpoint) THEN Append(emitter[e], c)
                   ELSE emitter[e]]

\* req.signal "abort" : closed = true; cleanup()
Abort(c) ==
  /\ conns[c].endpoint # Missing
  /\ ~conns[c].aborted
  /\ request' = Request("abort", NoUser, Missing, Missing, conns[c].endpoint)
  /\ StreamFrame
  /\ conns' = [Silent EXCEPT ![c].closed = TRUE, ![c].heartbeat = FALSE,
                             ![c].streamOpen = FALSE, ![c].aborted = TRUE]
  /\ emitter' = cleanup(emitter, c)

\* cancel() of the response stream : closed = true
Cancel(c) ==
  /\ conns[c].endpoint # Missing
  /\ conns[c].streamOpen
  /\ request' = Request("cancel", NoUser, Missing, Missing, conns[c].endpoint)
  /\ StreamFrame
  /\ conns' = [Silent EXCEPT ![c].closed = TRUE, ![c].streamOpen = FALSE]
  /\ UNCHANGED emitter

\* realtimeEmitter.emit(event.type, event) by a handler this module does not
\* model: every listener of the name runs
Emit(event) ==
  /\ emitter[event.type] # <<>>
  /\ request' = Request("emit", NoUser, Missing, Missing, event.type)
  /\ notifications' = <<>>
  /\ response' = Response(0, NoBody)
  /\ UNCHANGED <<dbVars, now, fwVars, promotedSinceOccupied, lastReport,
                 raceVars>>
  /\ published' = <<event>>
  /\ Forward(published')

\* the setInterval callback : nothing when closed; else a heartbeat write,
\* and closed = true; cleanup() when the write throws
HeartbeatTick(c, ok) ==
  /\ conns[c].heartbeat
  /\ request' = Request("heartbeat", NoUser, Missing, Missing,
                        conns[c].endpoint)
  /\ StreamFrame
  /\ IF conns[c].closed
     THEN conns' = Silent /\ UNCHANGED emitter
     ELSE IF ok
     THEN /\ conns' = [Silent EXCEPT ![c].written = <<HeartbeatLine>>]
          /\ UNCHANGED emitter
     ELSE /\ conns' = [Silent EXCEPT ![c].closed = TRUE,
                                     ![c].heartbeat = FALSE,
                                     ![c].streamOpen = FALSE]
          /\ emitter' = cleanup(emitter, c)

\* -------------------------------- useStationSSE and LivePortStatus
\* data[key] of the polled object: NoStatus stands for undefined
Status(data, key) == IF key \in DOMAIN data THEN data[key] ELSE NoStatus

\* useStationSSE lines 80-91 : the port-update listener of the EventSource
portUpdate(ports, data) ==
  [k \in 1..Len(ports) |->
     IF ports[k]._id = data.portId \/ ports[k].portNumber = data.portId
     THEN [ports[k] EXCEPT !.status = data.status]
     ELSE ports[k]]

\* useStationSSE lines 43-55 : the polled object applied to the ports
poll(ports, data) ==
  IF \A key \in DOMAIN data : data[key] = NoStatus THEN ports
  ELSE [k \in 1..Len(ports) |->
          LET byId == Status(data, ports[k]._id)
              newStatus == IF byId # NoStatus THEN byId
                           ELSE Status(data, ports[k].portNumber)
          IN IF newStatus # NoStatus /\ newStatus # ports[k].status
             THEN [ports[k] EXCEPT !.status = newStatus]
             ELSE ports[k]]

\* LivePortStatus lines 42-65 : the polled object applied to the ports
livePoll(ports, data) ==
  IF \A key \in DOMAIN data : data[key] = NoStatus THEN ports
  ELSE [k \in 1..Len(ports) |->
          LET key == IF ports[k]._id # Missing THEN ports[k]._id
                     ELSE ports[k].portNumber
              newStatus == Status(data, key)
          IN IF newStatus # NoStatus /\ newStatus # ports[k].status
             THEN [ports[k] EXCEPT !.status = newStatus]
             ELSE ports[k]]

ClientFrame ==
  /\ published' = <<>>
  /\ notifications' = <<>>
  /\ response' = Response(0, NoBody)
  /\ conns' = Silent
  /\ UNCHANGED <<dbVars, now, fwVars, promotedSinceOccupied, lastReport,
                 raceVars, emitter>>

\* the EventSource of the page is connection c; the port-update the latest
\* step wrote to it arrives and its listener runs. An event that does not
\* arrive before the next step is lost.
ClientPush(c) ==
  /\ conns[c].endpoint = "station-updates"
  /\ conns[c].stationId = ViewerStation
  /\ Len(conns[c].written) = 1
  /\ conns[c].written[1].type = "port-update"
  /\ request' = Request("push", NoUser, ViewerStation, Missing, Missing)
  /\ ClientFrame
  /\ client' = [client EXCEPT
                  !.ports = portUpdate(@, conns[c].written[1])]

\* the answer of GET port-status of the latest step reaches the interval
\* callback of useStationSSE
ClientPoll ==
  /\ request.op = "portStatus" /\ request.stationId = ViewerStation
  /\ response.code = 200
  /\ request' = Request("poll", NoUser, ViewerStation, Missing, Missing)
  /\ ClientFrame
  /\ client' = [client EXCEPT !.ports = poll(@, response.body.statuses)]

\* the answer of GET port-status of the latest step reaches poll() of
\* LivePortStatus
ClientLivePoll ==
  /\ request.op = "portStatus" /\ request.stationId = ViewerStation
  /\ response.code = 200
  /\ request' = Request("livePoll", NoUser, ViewerStation, Missing, Missing)
  /\ ClientFrame
  /\ client' = [client EXCEPT
                  !.livePorts = livePoll(@, response.body.statuses)]

\* ------------------------------ /api/stations/[id]/subscribe (notify me)
SubscribeFrame ==
  /\ published' = <<>>
  /\ notifications' = <<>>
  /\ Forward(published')
  /\ UNCHANGED <<queue, portStatusFile, stationDoc, now, fwVars,
                 promotedSinceOccupied, lastReport, raceVars>>

\* POST : findOneAndUpdate({userId, stationId}, {active: true}, upsert)
Subscribe(userId, stationId) ==
  /\ request' = Request("subscribe", userId, stationId, Missing, Missing)
  /\ SubscribeFrame
  /\ IF userId = NoUser
     THEN /\ response' = Response(401, NoBody)
          /\ UNCHANGED subActive
     ELSE /\ subActive' = [subActive EXCEPT ![stationId] = @ \cup {userId}]
          /\ response' = Response(200, NoBody)

\* DELETE : findOneAndUpdate({userId, stationId}, {active: false})
Unsubscribe(userId, stationId) ==
  /\ request' = Request("unsubscribe", userId, stationId, Missing, Missing)
  /\ SubscribeFrame
  /\ IF userId = NoUser
     THEN /\ response' = Response(401, NoBody)
          /\ UNCHANGED subActive
     ELSE /\ subActive' = [subActive EXCEPT ![stationId] = @ \ {userId}]
          /\ response' = Response(200, NoBody)

\* --------------------------------- GET /api/stations/[id]/port-status
\* part_006 lines 12-21 : the polling read of the status file
GetPortStatus(stationId, readOk) ==
  /\ request' = Request("portStatus", NoUser, stationId, Missing, Missing)
  /\ response' = Response(200, [statuses |->
                    getPortStatuses(portStatusFile, stationId, readOk)])
  /\ published' = <<>>
  /\ notifications' = <<>>
  /\ Forward(published')
  /\ UNCHANGED <<dbVars, now, fwVars, promotedSinceOccupied, lastReport,
                 raceVars>>

\* reports handled while the status file is readable or not
StoreEnvs(reads) == [dbOk : {TRUE}, readOk : reads, writeOk : {TRUE},
                     fail : {"none"}, click : {0}]

StoreReports ==
  {HARDWARE_API_KEY} \X Stations \X Ports \X {"available", "occupied"}

\* ------------------------- reports handled by workers sharing the file
\* Each worker is a server process of its own: inside one worker
\* setPortStatus runs to its end, between workers the read of the file by
\* one and the write by another interleave.
WorkerFrame ==
  /\ notifications' = <<>>
  /\ UNCHANGED <<queue, subActive, now, fwVars, promotedSinceOccupied, calls,
                 streamVars>>

\* port-update lines 23-39 and part_008 line 401 : an accepted report with
\* status occupied reaches setPortStatus, which reads the whole file
WorkerRead(w, stationId, portId) ==
  /\ writers[w].pc \in {"idle", "done"}
  /\ request' = Request("report", NoUser, stationId, portId, "occupied")
  /\ response' = Response(0, NoBody)
  /\ published' = <<>>
  /\ WorkerFrame
  /\ writers' = [writers EXCEPT ![w] =
                   [pc |-> "read", stationId |-> stationId,
                    portId |-> portId, status |-> "occupied",
                    store |-> readPortStatusFile(portStatusFile, TRUE)]]
  /\ UNCHANGED <<portStatusFile, stationDoc, lastReport>>

\* part_008 lines 402-404 and 421, port-update lines 48-68 : the entry is
\* set in what was read, the whole file is written, the event is emitted,
\* the station document is updated and the report is answered
WorkerWrite(w) ==
  /\ writers[w].pc = "read"
  /\ LET stationId == writers[w].stationId
         portId == writers[w].portId
         status == writers[w].status
     IN /\ request' = Request("report", NoUser, stationId, portId, status)
        /\ portStatusFile' =
             writePortStatusFile(portStatusFile,
               [writers[w].store EXCEPT ![stationId][portId] = status], TRUE)
        /\ published' = <<PortUpdateEvent(stationId, portId, status,
                                          "status_change", now)>>
        /\ stationDoc' = IF ~IsFileStation(stationId)
                         THEN [stationDoc EXCEPT ![stationId][portId] = status]
                         ELSE stationDoc
        /\ lastReport' = [lastReport EXCEPT ![stationId][portId] = status]
  /\ response' = Response(200, NoBody)
  /\ writers' = [writers EXCEPT ![w].pc = "done"]
  /\ WorkerFrame

\* ---------------------------------------------------------- specifications
\* The queues of two stations under join and leave, with available reports
\* for the first one, during which the queue_turn notification may fail.
Next ==
  \/ \E r \in QueueRequests : Join(r[1], r[2])
  \/ \E r \in QueueRequests : Leave(r[1], r[2])
  \/ \E r \in {q \in ReportInputs : q[2] = "db1" /\ q[3] = "p1"},
        env \in Envs({"none", "turnNotification"}, {0}) :
       HardwareReport(r[1], r[2], r[3], r[4], env)

Spec == Init /\ [][Next]_vars

\* The queue of the device's station with the clock, the queue reads and the
\* connected device as the source of the reports.
DeviceRequests == {"u1", "u2"} \X {STATION_ID}

NextDevice ==
  \/ Tick(ExpiryMs + 1)
  \/ \E r \in DeviceRequests \cup {<<"u1", "station-1">>} : Join(r[1], r[2])
  \/ \E r \in DeviceRequests : Leave(r[1], r[2])
  \/ GetQueue("u1", STATION_ID)
  \/ \E env \in Envs({"none"}, {0}) : ButtonPress(TRUE, env)
  \/ \E env \in Envs({"none"}, {0}) : ChargingDone(TRUE, env)
  \/ \E env \in Envs({"none"}, {0}) : Heartbeat(env)

SpecDevice == Init /\ [][NextDevice]_vars

\* Promotions with a clock that may advance between the two readings.
NextClock ==
  \/ \E r \in DeviceRequests \cup {<<"u1", "station-1">>} : Join(r[1], r[2])
  \/ \E r \in {q \in ReportInputs : q[3] = "p1"},
        env \in Envs({"none"}, Clicks) :
       HardwareReport(r[1], r[2], r[3], r[4], env)

SpecClock == Init /\ [][NextClock]_vars

\* Handlers of station db1 that overlap: every interleaving of their awaited
\* store operations.
NextRace ==
  \/ \E c \in RaceCalls : JoinFindExisting(c)
  \/ \E c \in RaceCalls : JoinFindLast(c)
  \/ \E c \in RaceCalls : JoinCreate(c)
  \/ \E c \in RaceCalls : LeaveComplete(c)
  \/ \E c \in RaceCalls : LeaveFindRemaining(c)
  \/ \E c \in RaceCalls : LeaveSave(c)
  \/ \E c \in RaceCalls : ReportPromote(c)
  \/ \E c \in RaceCalls : ReportNotify(c)
  \/ \E c \in RaceCalls : ReportRemaining(c)

SpecRace == Init /\ [][NextRace]_vars

\* Two workers that handle occupied reports for the ports of two stations.
NextWorkers ==
  \/ \E w \in Workers, s \in Stations, p \in Ports : WorkerRead(w, s, p)
  \/ \E w \in Workers : WorkerWrite(w)

SpecWorkers == Init /\ [][NextWorkers]_vars

\* Reports for the ports of two stations, the status file being unreadable
\* at times, and the polling reads.
NextStore ==
  \/ \E r \in StoreReports, env \in StoreEnvs(BOOLEAN) :
       HardwareReport(r[1], r[2], r[3], r[4], env)
  \/ \E s \in Stations : GetPortStatus(s, TRUE)

SpecStore == Init /\ [][NextStore]_vars

\* Notify-me subscriptions of two stations and the available reports that
\* serve them.
SubscribeRequests == (Users \X {"db1"}) \cup {<<"u1", "station-1">>}
                       \cup {<<NoUser, "db1">>}

NextSubscribe ==
  \/ \E r \in SubscribeRequests : Subscribe(r[1], r[2])
  \/ \E r \in {<<"u1", "db1">>, <<NoUser, "db1">>} : Unsubscribe(r[1], r[2])
  \/ \E r \in {q \in ReportInputs : q[3] = "p1"}, env \in Envs({"none"}, {0}) :
       HardwareReport(r[1], r[2], r[3], r[4], env)

SpecSubscribe == Init /\ [][NextSubscribe]_vars

\* Clients of the two streaming endpoints that connect, receive events and
\* heartbeats, and go away.
StreamClients == {<<"station-updates", Missing, NoUser>>,
                  <<"user", Missing, "u1">>}

StreamEvents == {PortUpdateEvent("db1", "p1", "available", "status_change", 0),
                 UserNotificationEvent("u1", 1, "port_available", "db1"),
                 QueueUpdateEvent("db1", "u1", 1, "waiting", SlotMinutes)}

NextStream ==
  \/ \E c \in ConnIds, k \in StreamClients : Connect(c, k[1], k[2], k[3])
  \/ \E c \in ConnIds : Abort(c)
  \/ \E c \in ConnIds : Cancel(c)
  \/ \E event \in StreamEvents : Emit(event)
  \/ \E c \in ConnIds, ok \in BOOLEAN : HeartbeatTick(c, ok)

SpecStream == Init /\ [][NextStream]_vars

\* the same with the timers running: an interval that is set keeps firing
SpecStreamLive ==
  SpecStream /\ \A c \in ConnIds : WF_vars(\E ok \in BOOLEAN : HeartbeatTick(c, ok))

\* Viewers of the station stream, with and without a station filter, and
\* reports whose status may fail to be written to the file or to the
\* station document.
FanoutClients == {<<"station-updates", Missing, NoUser>>,
                  <<"station-updates", "db1", NoUser>>}

\* the connections of the viewers
Viewers == {1, 2}

PersistEnvs == [dbOk : BOOLEAN, readOk : {TRUE}, writeOk : BOOLEAN,
                fail : {"none"}, click : {0}]

FanoutReports == {HARDWARE_API_KEY} \X Stations \X {"p1"}
                                    \X {"available", "occupied"}

NextFanout ==
  \/ \E c \in Viewers, k \in FanoutClients : Connect(c, k[1], k[2], k[3])
  \/ \E c \in Viewers : Abort(c)
  \/ \E c \in Viewers : Cancel(c)
  \/ \E r \in FanoutReports, env \in PersistEnvs :
       HardwareReport(r[1], r[2], r[3], r[4], env)

SpecFanout == Init /\ [][NextFanout]_vars

\* Joins and available reports of station db1 during which the store may
\* refuse the write of the new entry or of the promotion.
NextFailure ==
  \/ \E u \in Users : Join(u, "db1")
  \/ \E u \in Users : JoinCreateThrows(u, "db1")
  \/ \E env \in Envs({"none", "promote"}, {0}) :
       HardwareReport(HARDWARE_API_KEY, "db1", "p1", "available", env)

SpecFailure == Init /\ [][NextFailure]_vars

\* Reports with a wrong key or a missing field among accepted ones, for a
\* station that has waiting users, subscribers and a viewer.
RejectReports ==
  {<<HARDWARE_API_KEY, "db1", "p1", "available">>,
   <<HARDWARE_API_KEY, "db1", "p1", "occupied">>,
   <<"wrong-key", "db1", "p1", "available">>,
   <<"wrong-key", Missing, "p1", "available">>,
   <<HARDWARE_API_KEY, Missing, "p1", "available">>,
   <<HARDWARE_API_KEY, "db1", Missing, "available">>,
   <<HARDWARE_API_KEY, "db1", "p1", Missing>>}

NextReject ==
  \/ \E u \in {"u1", "u2"} : Join(u, "db1")
  \/ Subscribe("u3", "db1")
  \/ Connect(1, "station-updates", Missing, NoUser)
  \/ \E r \in RejectReports, env \in Envs({"none"}, {0}) :
       HardwareReport(r[1], r[2], r[3], r[4], env)

SpecReject == Init /\ [][NextReject]_vars

\* Two users of station db1 who join and are promoted, the first of whom
\* subscribes and the second of whom leaves, while the user stream of the
\* first one and the user stream of the second one or a station stream are
\* connected.
UserClients == {<<1, "user", Missing, "u1">>, <<2, "user", Missing, "u2">>,
                <<2, "station-updates", Missing, NoUser>>}

NextUserStream ==
  \/ \E k \in UserClients : Connect(k[1], k[2], k[3], k[4])
  \/ \E u \in {"u1", "u2"} : Join(u, "db1")
  \/ Leave("u2", "db1")
  \/ Subscribe("u1", "db1")
  \/ \E env \in Envs({"none"}, {0}) :
       HardwareReport(HARDWARE_API_KEY, "db1", "p1", "available", env)

SpecUserStream == Init /\ [][NextUserStream]_vars

\* Subscribe and unsubscribe requests for station db1 that arrive between
\* the store calls of the report handler.
NextNotifyRace ==
  \/ \E u \in Users : Subscribe(u, RaceStation)
  \/ Unsubscribe("u1", RaceStation)
  \/ ReportFindSubscribers("report")
  \/ ReportNotifySubscriber("report")
  \/ ReportDeactivate("report")
  \/ ReportProcessQueue("report")

SpecNotifyRace == Init /\ [][NextNotifyRace]_vars

\* A station page of db1 with its event stream and its two polls, and the
\* reports of the devices of its two ports.
ViewerReports == {HARDWARE_API_KEY} \X {ViewerStation} \X Ports
                                    \X {"available", "occupied"}

NextViewer ==
  \/ Connect(1, "station-updates", ViewerStation, NoUser)
  \/ \E r \in ViewerReports, env \in Envs({"none"}, {0}) :
       HardwareReport(r[1], r[2], r[3], r[4], env)
  \/ ClientPush(1)
  \/ GetPortStatus(ViewerStation, TRUE)
  \/ ClientPoll
  \/ ClientLivePoll

SpecViewer == Init /\ [][NextViewer]_vars

\* ------------------------------------------------------------ properties
Active == {"waiting", "notified"}
Waiting(q, stationId) == FindIds(q, stationId, {"waiting"})
Sent(pub, type, userId) ==
  {k \in 1..Len(pub) : pub[k].type = type /\ pub[k].userId = userId}
\* the position a waiting entry has once the waiting entries are re-packed
Rank(q, i) ==
  1 + Cardinality({j \in Waiting(q, q[i].stationId) :
                     q[j].position < q[i].position})
IsAvailableReport(req, resp) ==
  req.op = "report" /\ req.status = "available" /\ resp.code = 200

\* C1: in every reachable state the stored positions of the waiting entries
\* of each station are exactly 1..k, k the number of waiting entries.
C1_DenseWaitingPositions ==
  \A s \in Stations :
    {queue[i].position : i \in Waiting(queue, s)}
      = 1..Cardinality(Waiting(queue, s))

\* C2: as long as a station has seen only joins (all its entries are still
\* waiting), the n-th entry that joined it has position n.
C2_JoinOrderPositions ==
  \A s \in Stations :
    (\A i \in 1..Len(queue) :
       queue[i].stationId = s => queue[i].status = "waiting")
    => \A i \in 1..Len(queue) :
         queue[i].stationId = s =>
           queue[i].position =
             Cardinality({j \in 1..i : queue[j].stationId = s})

C2_Witness ==
  /\ request.op = "join"
  /\ Cardinality(Waiting(queue, "db1")) = 3
  /\ \A i \in 1..Len(queue) : queue[i].status = "waiting"

\* C3: every step leaves at most one waiting or notified entry per user and
\* station; a join by a user who has such an entry creates nothing, publishes
\* nothing and answers 409 with the position of that entry.
C3_OneActiveEntryPerUser ==
  [][/\ \A u \in Users, s \in Stations :
          Cardinality(FindUserIds(queue', u, s, Active)) <= 1
     /\ \A u \in Users, s \in Stations :
          (/\ request'.op = "join"
           /\ request'.userId = u
           /\ request'.stationId = s
           /\ FindUserIds(queue, u, s, Active) # {})
          => /\ queue' = queue
             /\ published' = <<>>
             /\ response'.code = 409
             /\ \E i \in FindUserIds(queue, u, s, Active) :
                  response'.body.position = queue[i].position]_vars

C3_Witness ==
  /\ request.op = "join"
  /\ response.code = 409
  /\ \E i \in FindUserIds(queue, request.userId, request.stationId,
                          {"notified"}) :
       response.body.position = queue[i].position

\* C4: a handled available report on a station with waiting entries changes
\* exactly one entry, the waiting entry with the smallest position, to
\* notified with notifiedAt = now and expiresAt = notifiedAt + 5 minutes.
C4_PromoteStampsFiveMinutes ==
  [][\A s \in Stations :
       (/\ IsAvailableReport(request', response')
        /\ request'.stationId = s
        /\ Waiting(queue, s) # {})
       => \E i \in Waiting(queue, s) :
            /\ \A j \in Waiting(queue, s) :
                 queue[i].position <= queue[j].position
            /\ queue'[i].status = "notified"
            /\ queue'[i].notifiedAt = request'.at
            /\ queue'[i].expiresAt = queue'[i].notifiedAt + 5 * 60 * 1000
            /\ Len(queue') = Len(queue)
            /\ \A j \in 1..Len(queue) : j # i => queue'[j] = queue[j]]_vars

\* C5: a queue read made strictly after the expiresAt of a notified entry
\* does not report that entry as notified.
C5_ExpiredOnRead ==
  request.op = "getQueue" =>
    \A k \in 1..Len(response.body.queue) :
      response.body.queue[k].status = "notified" =>
        \A i \in FindUserIds(queue, response.body.queue[k].userId,
                             request.stationId, {"notified"}) :
          ~(queue[i].expiresAt < request.at)

\* C6: a leave by a user with a waiting or notified entry completes that
\* entry, re-packs the remaining waiting entries to 1..k in their order, and
\* publishes exactly one queue-update per remaining waiting user, with the
\* new position and position x 30 as the estimate, and nothing else.
C6_LeaveRepacks ==
  [][\A u \in Users, s \in Stations :
       (/\ request'.op = "leave"
        /\ request'.userId = u
        /\ request'.stationId = s
        /\ FindUserIds(queue, u, s, Active) # {})
       => LET W == Waiting(queue', s)
          IN /\ Len(queue') = Len(queue)
             /\ \A i \in FindUserIds(queue, u, s, Active) :
                  queue'[i].status = "completed"
             /\ W = Waiting(queue, s) \ FindUserIds(queue, u, s, Active)
             /\ {queue'[i].position : i \in W} = 1..Cardinality(W)
             /\ \A i \in W, j \in W :
                  queue[i].position < queue[j].position
                    => queue'[i].position < queue'[j].position
             /\ \A i \in W :
                  Cardinality(Sent(published', "queue-update",
                                   queue'[i].userId)) = 1
             /\ \A k \in 1..Len(published') :
                  /\ published'[k].type = "queue-update"
                  /\ published'[k].stationId = s
                  /\ published'[k].queueStatus = "waiting"
                  /\ \E i \in W :
                       /\ queue'[i].userId = published'[k].userId
                       /\ published'[k].position = queue'[i].position
                       /\ published'[k].estimatedWaitMin
                            = queue'[i].position * 30]_vars

C6_Witness ==
  /\ request.op = "leave"
  /\ \E i \in 1..Len(queue) :
       /\ queue[i].userId = request.userId
       /\ queue[i].stationId = request.stationId
       /\ queue[i].status = "completed"
       /\ queue[i].position = 1
  /\ Len(published) = 2
  /\ Cardinality(Waiting(queue, request.stationId)) = 2

\* C7: whenever a report promotes an entry, its user is sent exactly one
\* queue_turn notification (one row, one event) and exactly one queue-update
\* with queueStatus notified, and every entry still waiting is sent one
\* queue-update with its re-packed position.
C7_PromotedUserNotified ==
  [][\A i \in Promoted(queue, queue') :
       LET u == queue[i].userId
           s == queue[i].stationId
       IN /\ Cardinality({k \in Sent(published', "notification", u) :
               published'[k].notificationType = "queue_turn"}) = 1
          /\ Cardinality({k \in 1..Len(notifications') :
               /\ notifications'[k].userId = u
               /\ notifications'[k].type = "queue_turn"}) = 1
          /\ Cardinality({k \in Sent(published', "queue-update", u) :
               published'[k].queueStatus = "notified"}) = 1
          /\ \A j \in Waiting(queue', s) :
               Cardinality({k \in Sent(published', "queue-update",
                                       queue'[j].userId) :
                  /\ published'[k].queueStatus = "waiting"
                  /\ published'[k].position = Rank(queue', j)}) = 1]_vars

\* C8: between two occupied periods of the device's port, its reports
\* promote at most one waiting entry.
C8_OnePromotionPerFreeUp == promotedSinceOccupied <= 1

\* C9: an entry goes from waiting to notified only in the step that handles
\* an accepted report with status available for its station, and only if no
\* waiting entry of that station has a lower position.
C9_PromotionOnlyByAvailableReport ==
  [][\A i \in Promoted(queue, queue') :
       /\ IsAvailableReport(request', response')
       /\ request'.stationId = queue[i].stationId
       /\ \A j \in Waiting(queue, queue[i].stationId) :
            queue[i].position <= queue[j].position]_vars

C9_Witness ==
  /\ IsAvailableReport(request, response)
  /\ \E i \in FindIds(queue, request.stationId, {"notified"}) :
       /\ queue[i].notifiedAt = request.at
       /\ \E j \in Waiting(queue, request.stationId) :
            queue[i].position < queue[j].position
  /\ FindIds(queue, "station-1", {"waiting"}) # {}

\* C10: a user whose notified entry is past its expiresAt is not rejected
\* as already queued when joining the station again.
C10_RejoinAfterExpiry ==
  ~(/\ request.op = "join"
    /\ response.code = 409
    /\ \E i \in FindUserIds(queue, request.userId, request.stationId,
                            {"notified"}) :
         queue[i].expiresAt < request.at)

\* ------------------------------------------- properties of the overlap
InFlight(c) == calls[c].pc \notin {"idle", "done"}

\* the report handlers that have published the notified queue-update of e
NotifiedPublished(e) ==
  \E c \in RaceCalls :
    /\ CallOp(c) = "report"
    /\ calls[c].next = e
    /\ calls[c].pc \in {"remaining", "done"}

\* C11: once two joins of the same user for the same station have both
\* returned, with no leave of that user started, the user has at most one
\* waiting or notified entry there and at most one of the joins answered 201.
C11_ConcurrentJoinsOneEntry ==
  (/\ calls["join1a"].pc = "done"
   /\ calls["join1b"].pc = "done"
   /\ calls["leave1"].pc = "idle")
  => /\ Cardinality(FindUserIds(queue, "u1", RaceStation, Active)) <= 1
     /\ ~(calls["join1a"].code = 201 /\ calls["join1b"].code = 201)

\* C12: whenever no join, leave or report handler of the station is in
\* flight, no two of its waiting entries have the same position and the
\* waiting positions are 1..k.
C12_QuiescentDensePositions ==
  (\A c \in RaceCalls : ~InFlight(c))
  => LET W == Waiting(queue, RaceStation)
     IN /\ \A i \in W, j \in W :
             i # j => queue[i].position # queue[j].position
        /\ {queue[i].position : i \in W} = 1..Cardinality(W)

\* C13: a step never publishes a queue-update with queueStatus waiting for
\* an entry whose queue-update with queueStatus notified has been published.
C13_NoWaitingAfterNotified ==
  [][\A c \in RaceCalls :
       (/\ CallOp(c) = "leave"
        /\ calls[c].pc = "save"
        /\ calls'[c] # calls[c])
       => LET doc == calls[c].remaining[calls[c].i]
          IN ~(/\ NotifiedPublished(doc.id)
               /\ \E k \in 1..Len(published') :
                    /\ published'[k].type = "queue-update"
                    /\ published'[k].userId = doc.userId
                    /\ published'[k].queueStatus = "waiting")]_vars

\* C14: a step changes the status of an entry only from waiting to notified,
\* from waiting to completed, from notified to completed or from notified to
\* expired; it removes no entry and changes neither the user nor the station
\* of one; and a join answered 201 adds one waiting entry and leaves every
\* older entry as it was.
C14_StatusMovesForwardOnly ==
  [][/\ Len(queue') >= Len(queue)
     /\ \A i \in 1..Len(queue) :
          /\ queue'[i].userId = queue[i].userId
          /\ queue'[i].stationId = queue[i].stationId
          /\ \/ queue'[i].status = queue[i].status
             \/ <<queue[i].status, queue'[i].status>> \in
                  {<<"waiting", "notified">>, <<"waiting", "completed">>,
                   <<"notified", "completed">>, <<"notified", "expired">>}
     /\ (request'.op = "join" /\ response'.code = 201)
        => /\ Len(queue') = Len(queue) + 1
           /\ queue'[Len(queue')].status = "waiting"
           /\ queue'[Len(queue')].userId = request'.userId
           /\ \A i \in 1..Len(queue) : queue'[i] = queue[i]]_vars

\* a user has joined again after leaving, and a re-pack loop has saved a new
\* position into an entry that was completed after the loop had read it
C14_Witness ==
  /\ calls["join1a"].code = 201
  /\ calls["join1b"].code = 201
  /\ \E i \in 1..Len(queue), j \in 1..Len(queue) :
       /\ i < j
       /\ queue[i].userId = "u1" /\ queue[i].status = "completed"
       /\ queue[j].userId = "u1" /\ queue[j].status = "waiting"
       /\ calls["leave2"].pc = "done"
       /\ \E k \in 1..Len(calls["leave2"].remaining) :
            /\ calls["leave2"].remaining[k].id = i
            /\ calls["leave2"].remaining[k].position # k
            /\ queue[i].position = k

\* C15: a join answered 201 adds a waiting entry whose position is 1 plus
\* the largest position among the waiting entries the station had, and 1 if
\* it had none, and publishes exactly one event, the queue-update of the
\* joining user with that position.
C15_JoinAfterLastWaiting ==
  [][(request'.op = "join" /\ response'.code = 201)
     => LET s == request'.stationId
            W == Waiting(queue, s)
            position == IF W = {} THEN 1 ELSE MaxPosition(queue, W) + 1
        IN /\ Len(queue') = Len(queue) + 1
           /\ queue'[Len(queue')].status = "waiting"
           /\ queue'[Len(queue')].position = position
           /\ response'.body.position = position
           /\ Len(published') = 1
           /\ published'[1].type = "queue-update"
           /\ published'[1].userId = request'.userId
           /\ published'[1].position = position]_vars

\* --------------------------------------------- properties of the streams
ListenerCount(em, name, c) ==
  Cardinality({k \in 1..Len(em[name]) : em[name][k] = c})

Released(c) ==
  /\ \A name \in EventNames : ListenerCount(emitter, name, c) = 0
  /\ ~conns[c].heartbeat

\* C16: the abort of a connection's request removes that connection's
\* listeners from every event name and no other listener, so that each
\* listener count is what it would be had the client never connected, and
\* clears its heartbeat interval; an aborted connection holds no listener.
C16_AbortReleasesListeners ==
  [][\A c \in ConnIds :
       /\ (conns'[c].aborted /\ ~conns[c].aborted)
          => /\ \A name \in EventNames :
                  /\ emitter'[name] = Without(emitter[name], c)
                  /\ Len(emitter'[name]) =
                       Len(emitter[name])
                         - (IF /\ name \in Listens(conns[c].endpoint)
                               /\ conns[c].heartbeat
                            THEN 1 ELSE 0)
             /\ ~conns'[c].heartbeat
       /\ conns'[c].aborted
          => /\ \A name \in EventNames :
                  ListenerCount(emitter', name, c) = 0
             /\ ~conns'[c].heartbeat]_vars

\* two clients, one of each endpoint, connected and the first one aborted
\* while the second one is still listening
C16_Witness ==
  /\ request.op = "abort"
  /\ \E c \in ConnIds, d \in ConnIds :
       /\ conns[c].aborted /\ conns[c].endpoint = "user"
       /\ conns[d].endpoint = "station-updates" /\ ~conns[d].aborted
       /\ emitter["port-update"] = <<d>>
       /\ emitter["notification"] = <<>>
       /\ emitter["queue-update"] = <<>>

\* C17: a connection whose closed flag is set (by a failed write of an
\* event, a failed heartbeat write or the cancellation of its stream) has
\* its listeners removed and its interval cleared some time later.
C17_ClosedEventuallyReleased ==
  \A c \in ConnIds : (conns[c].closed ~> Released(c))

\* ---------------------------------------- properties of the subscriptions
PortAvailableEvents(pub, userId) ==
  {k \in Sent(pub, "notification", userId) :
     pub[k].notificationType = "port_available"}

PortAvailableRows(rows, userId) ==
  {k \in 1..Len(rows) :
     rows[k].userId = userId /\ rows[k].type = "port_available"}

\* C18: the handling of an accepted available report for a station sends
\* each user with an active subscription of that station exactly one
\* port_available notification (one row, one event) and no such
\* notification to anybody else, and leaves none of those subscriptions
\* active; the subscriptions of other stations stay as they are.
C18_SubscribersNotifiedOnce ==
  [][\A s \in Stations :
       (IsAvailableReport(request', response') /\ request'.stationId = s)
       => /\ \A u \in Users :
               LET n == IF u \in subActive[s] THEN 1 ELSE 0
               IN /\ Cardinality(PortAvailableEvents(published', u)) = n
                  /\ Cardinality(PortAvailableRows(notifications', u)) = n
          /\ subActive'[s] \cap subActive[s] = {}
          /\ \A t \in Stations \ {s} : subActive'[t] = subActive[t]]_vars

\* an available report has just served three subscribers of db1 while
\* station-1 keeps its subscriber
C18_Witness ==
  /\ IsAvailableReport(request, response)
  /\ request.stationId = "db1"
  /\ \A u \in Users : Cardinality(PortAvailableEvents(published, u)) = 1
  /\ subActive["db1"] = {}
  /\ subActive["station-1"] = {"u1"}

\* ------------------------------------------ properties of the port store
\* C19: an accepted report changes the stored status of no port but its own,
\* and a polling read of a station answers, for every port of the station
\* that has been reported, the status of the latest report for that port.
C19_PollReturnsLatestReport ==
  [][/\ (request'.op = "report" /\ response'.code = 200)
        => \A s \in Stations, p \in Ports :
             <<s, p>> # <<request'.stationId, request'.portId>>
               => portStatusFile'[s][p] = portStatusFile[s][p]
     /\ request'.op = "portStatus"
        => \A p \in Ports :
             lastReport'[request'.stationId][p] # NoStatus
               => response'.body.statuses[p]
                    = lastReport'[request'.stationId][p]]_vars

\* C20: once two workers have each handled a report, for distinct ports,
\* the store holds the status of both reports.
C20_NoLostWrite ==
  \A w \in Workers, v \in Workers :
    (/\ writers[w].pc = "done"
     /\ writers[v].pc = "done"
     /\ <<writers[w].stationId, writers[w].portId>>
          # <<writers[v].stationId, writers[v].portId>>)
    => /\ portStatusFile[writers[w].stationId][writers[w].portId]
            = writers[w].status
       /\ portStatusFile[writers[v].stationId][writers[v].portId]
            = writers[v].status
\* ------------------------------------------ properties of the fan-out
Listening(em, c, name) == \E k \in 1..Len(em[name]) : em[name][k] = c

\* the step is the handling of a report that has the configured key and
\* every field
AcceptedReport(req) ==
  /\ req.op = "report"
  /\ req.apiKey = HARDWARE_API_KEY
  /\ req.stationId # Missing /\ req.portId # Missing /\ req.status # Missing

\* connection c was listening for port updates of the station, and neither
\* was closed before the step nor had a write fail during it
LiveViewer(c, stationId) ==
  /\ Listening(emitter, c, "port-update")
  /\ ~conns[c].closed /\ ~conns'[c].closed
  /\ conns[c].stationId \in {Missing, stationId}

\* C21: an accepted report is answered 200 and its port-update event is
\* published and written to every live viewer of the station, whether or
\* not the status file and the station document took the new status.
C21_BroadcastSurvivesPersistFailure ==
  [][AcceptedReport(request')
       => /\ response'.code = 200
          /\ Len(published') >= 1
          /\ published'[1].type = "port-update"
          /\ published'[1].stationId = request'.stationId
          /\ published'[1].portId = request'.portId
          /\ published'[1].status = request'.status
          /\ \A c \in ConnIds :
                LiveViewer(c, request'.stationId)
                  => conns'[c].written = <<published'[1]>>]_vars

\* a report of db1 answered 200 and written to a viewer although neither
\* the file nor the station document holds its status
C21_Witness ==
  /\ AcceptedReport(request)
  /\ request.stationId = "db1"
  /\ response.code = 200
  /\ portStatusFile["db1"][request.portId] # request.status
  /\ stationDoc["db1"][request.portId] # request.status
  /\ \E c \in ConnIds : /\ conns[c].written = <<published[1]>>
                         /\ conns[c].stationId = "db1"

\* connection c was listening to the name and had not been closed before
\* the step, and no write to it failed during the step
Healthy(c, name) ==
  /\ Listening(emitter, c, name)
  /\ ~conns[c].closed /\ ~conns'[c].closed

\* the event is among what the step wrote to connection c
WrittenTo(c, event) ==
  \E j \in 1..Len(conns'[c].written) : conns'[c].written[j] = event

\* C23: a healthy connection of the station stream is written a published
\* port-update exactly if it has no stationId filter or the event's
\* stationId equals its filter.
C23_StationFilter ==
  [][\A c \in ConnIds :
       (conns[c].endpoint = "station-updates" /\ Healthy(c, "port-update"))
         => \A k \in 1..Len(published') :
              published'[k].type = "port-update"
                => (WrittenTo(c, published'[k])
                      <=> \/ conns[c].stationId = Missing
                          \/ published'[k].stationId = conns[c].stationId)]_vars

\* a report of station-1 written to a viewer without a filter and not to a
\* healthy viewer of db1
C23_Witness ==
  /\ AcceptedReport(request)
  /\ request.stationId = "station-1"
  /\ \E c \in ConnIds, d \in ConnIds :
       /\ conns[c].endpoint = "station-updates" /\ conns[c].stationId = "db1"
       /\ ~conns[c].closed /\ Listening(emitter, c, "port-update")
       /\ conns[c].written = <<>>
       /\ conns[d].endpoint = "station-updates"
       /\ conns[d].stationId = Missing
       /\ conns[d].written = <<published[1]>>

\* connection d is dead: its closed flag was set before the step, or a write
\* to it failed during the step
Dead(d) == conns'[d].closed /\ ~conns'[d].aborted

\* C25: whatever dead connections are listening to a topic, every event
\* published on it is still written to every healthy connection it matches,
\* and the report handler that published it goes on to answer 200.
C25_DeadSubscriberIsolated ==
  [][(\E d \in ConnIds : Listening(emitter, d, "port-update") /\ Dead(d))
       => /\ \A c \in ConnIds, k \in 1..Len(published') :
               (/\ Healthy(c, "port-update")
                /\ published'[k].type = "port-update"
                /\ conns[c].stationId \in {Missing, published'[k].stationId})
                 => WrittenTo(c, published'[k])
          /\ AcceptedReport(request') => response'.code = 200]_vars

\* a report whose event a viewer got although the write to a connection
\* registered before it failed, or that connection had been cancelled
C25_Witness ==
  /\ AcceptedReport(request)
  /\ response.code = 200
  /\ emitter["port-update"] = <<1, 2>>
  /\ conns[1].closed /\ ~conns[1].aborted /\ conns[1].streamOpen
  /\ conns[1].stationId = Missing
  /\ ~conns[2].closed
  /\ conns[2].written = <<published[1]>>

\* ------------------------------------- properties of failing store writes
\* C22: a join that leaves the queue as it was is not answered with success
\* and publishes nothing; an available report that finds a waiting entry and
\* leaves it unpromoted is not answered 200 and publishes neither a
\* queue-update nor a notification.
C22_UnrecordedMutationFailsLoudly ==
  [][/\ (request'.op = "join" /\ queue' = queue)
          => response'.code \notin {200, 201} /\ published' = <<>>
     /\ (/\ AcceptedReport(request')
         /\ request'.status = "available"
         /\ Waiting(queue, request'.stationId) # {}
         /\ Promoted(queue, queue') = {})
          => /\ response'.code # 200
             /\ \A k \in 1..Len(published') :
                  published'[k].type = "port-update"]_vars

\* ------------------------------------------ properties of rejected reports
\* C26: a report whose key is not the configured one is answered 401, one
\* with the key but without stationId, portId or status is answered 400, and
\* neither publishes an event, writes to a stream, creates a notification,
\* or changes the status file, the station document, the subscriptions or
\* the queue.
C26_RejectedReportNoEffect ==
  [][(request'.op = "report" /\ ~AcceptedReport(request'))
       => /\ response'.code =
               (IF request'.apiKey # HARDWARE_API_KEY THEN 401 ELSE 400)
          /\ published' = <<>>
          /\ notifications' = <<>>
          /\ \A c \in ConnIds : conns'[c].written = <<>>
          /\ portStatusFile' = portStatusFile
          /\ stationDoc' = stationDoc
          /\ subActive' = subActive
          /\ queue' = queue
          /\ lastReport' = lastReport]_vars

\* a report with a wrong key answered 401 while db1 has a waiting user, a
\* subscriber and a listening viewer, and the file has no status of the port
C26_Witness ==
  /\ request.op = "report"
  /\ request.apiKey # HARDWARE_API_KEY
  /\ request.stationId = "db1" /\ request.status = "available"
  /\ response.code = 401
  /\ Waiting(queue, "db1") # {}
  /\ subActive["db1"] # {}
  /\ emitter["port-update"] = <<1>> /\ ~conns[1].closed
  /\ portStatusFile["db1"]["p1"] = NoStatus

\* -------------------------------------- properties of the order of events
\* the event is one that connection c asked for: of its station if it has a
\* station filter, of its user on the user stream
Subscribed(c, e) ==
  IF e.type = "port-update"
  THEN conns[c].stationId \in {Missing, e.stationId}
  ELSE e.userId = conns[c].userId

UserEvents(c) ==
  SelectSeq(conns[c].written,
            LAMBDA e : e.type \in {"notification", "queue-update"})

\* C30 (as the code has it): every notification and queue-update written to
\* a connection of the user stream carries the userId of that connection,
\* whoever made the request that published it.
C30_OnlyOwnEvents ==
  \A c \in ConnIds :
    conns[c].endpoint = "user"
      => \A j \in 1..Len(UserEvents(c)) :
           UserEvents(c)[j].userId = conns[c].userId

\* u2 leaves the queue ahead of u1: the stream of u1 is written the new
\* position of u1, the stream of u2 nothing
C30_Witness ==
  /\ request.op = "leave" /\ request.userId = "u2"
  /\ conns[1].endpoint = "user" /\ conns[1].userId = "u1"
  /\ Len(conns[1].written) = 1
  /\ conns[1].written[1].type = "queue-update"
  /\ conns[1].written[1].userId = "u1"
  /\ conns[2].endpoint = "user" /\ conns[2].userId = "u2"
  /\ ~conns[2].closed /\ conns[2].written = <<>>

\* C30 (as stated): in addition, what is written to the connection of a user
\* does not depend on what another user does, so that a request of another
\* user writes nothing to it.
C30_StreamIndependentOfOthers ==
  [][\A c \in ConnIds :
       conns'[c].endpoint = "user"
         => /\ \A j \in 1..Len(conns'[c].written) :
                 conns'[c].written[j].type \in {"notification", "queue-update"}
                   => conns'[c].written[j].userId = conns'[c].userId
            /\ request'.userId \notin {conns'[c].userId, NoUser}
                 => conns'[c].written = <<>>]_vars

\* --------------------------- the pushed position and the polled position
\* the latest queue-update the step published to the user
LastUpdate(pub, userId) ==
  LET mine == {k \in 1..Len(pub) : /\ pub[k].type = "queue-update"
                                    /\ pub[k].userId = userId}
  IN CHOOSE k \in mine : \A j \in mine : j <= k

\* C28: after a join, a leave or a report, the position and the estimated
\* wait of the latest queue-update published to a user who is waiting are
\* the userPosition and the estimatedWaitMin that GET queue computes for
\* that user from the stored queue.
C28_PushedPositionIsPolledPosition ==
  \A u \in Users, s \in Stations :
    (/\ request.op \in {"join", "leave", "report"}
     /\ request.stationId = s
     /\ FindUserIds(queue, u, s, {"waiting"}) # {}
     /\ \E k \in 1..Len(published) : /\ published[k].type = "queue-update"
                                      /\ published[k].userId = u)
      => \A listed \in SortAsc(queue, FindIds(queue, s,
                                              {"waiting", "notified"})) :
           /\ published[LastUpdate(published, u)].position =
                userPosition(queue, listed, u)
           /\ published[LastUpdate(published, u)].estimatedWaitMin =
                userPosition(queue, listed, u) * SlotMinutes

\* ------------------------- subscriptions that change during a report
\* the users the report handler has sent port_available to so far
NotifiedSubscribers(c) ==
  {calls[c].remaining[k] : k \in 1..calls[c].i}

\* C29: a step of the report handler deactivates only subscriptions of
\* users it has sent a port_available notification to in that handling; one
\* activated after the handler read the subscriber list stays active.
C29_DeactivatedOnlyIfNotified ==
  [][request'.op = "report"
       => \A u \in subActive[RaceStation] \ subActive'[RaceStation] :
            u \in NotifiedSubscribers("report")]_vars

\* --------------------------------------- properties of the station page
\* the port is the one the devices report as portId
Shows(port, portId) == port._id = portId \/ port.portNumber = portId

\* C27: right after a poll of the page has been answered and applied, every
\* displayed port that a device has reported shows the status the store
\* holds for it, whether or not the push of that report arrived; this for
\* the poll of useStationSSE and for the poll of LivePortStatus.
C27_PollConverges ==
  \A portId \in Ports :
    portStatusFile[ViewerStation][portId] # NoStatus
      => /\ request.op = "poll"
              => \A k \in 1..Len(client.ports) :
                   Shows(client.ports[k], portId)
                     => client.ports[k].status =
                          portStatusFile[ViewerStation][portId]
         /\ request.op = "livePoll"
              => \A k \in 1..Len(client.livePorts) :
                   Shows(client.livePorts[k], portId)
                     => client.livePorts[k].status =
                          portStatusFile[ViewerStation][portId]

====
